---------------------------- MODULE Spec2Model ----------------------------
(***************************************************************************)
(* State-machine model of app/matcher.py: the address normaliser, the      *)
(* per-team embedding index cache (_team_cache, _build_team_index,         *)
(* _team_resources) and the staged matcher match_listing, run by several   *)
(* concurrent callers against a data store that gains properties over     *)
(* time.                                                                   *)
(*                                                                         *)
(* Text is a sequence of one-character strings.  A confidence c is kept as *)
(* the integer 2000*c and a cosine similarity s as the integer 100*s, so   *)
(* that s*0.5+0.5 and its 0.9 discount are exact.                          *)
(***************************************************************************)
EXTENDS Integers, Sequences, FiniteSets, TLC

(***************************************************************************)
(* Bounds of the model.                                                    *)
(***************************************************************************)
\* concurrent callers of match_listing
NumCallers == 2
\* rows the properties table may hold (inserted in catalogue order)
MaxProps == 3

(***************************************************************************)
(* Text helpers: str.lower, str.split, " ".join, str.strip, split("-")[0]. *)
(***************************************************************************)
\* Python None for Optional[str] arguments and Optional property ids
None == <<"None">>

Text(s) == s # None

IsSpace(c) == c \in {" ", "\t"}

LowerChar(c) ==
  CASE c = "A" -> "a"
    [] c = "B" -> "b"
    [] OTHER -> c

Lower(s) == [i \in 1..Len(s) |-> LowerChar(s[i])]

\* str.split(): the maximal runs of non-whitespace characters, in order
RECURSIVE SplitFrom(_, _, _)
SplitFrom(s, i, cur) ==
  IF i > Len(s)
    THEN IF cur = <<>> THEN <<>> ELSE <<cur>>
    ELSE IF IsSpace(s[i])
           THEN IF cur = <<>>
                  THEN SplitFrom(s, i + 1, <<>>)
                  ELSE <<cur>> \o SplitFrom(s, i + 1, <<>>)
           ELSE SplitFrom(s, i + 1, Append(cur, s[i]))

Split(s) == SplitFrom(s, 1, <<>>)

\* " ".join(words)
RECURSIVE JoinSpace(_)
JoinSpace(ws) ==
  IF ws = <<>> THEN <<>>
  ELSE IF Len(ws) = 1 THEN ws[1]
  ELSE ws[1] \o <<" ">> \o JoinSpace(Tail(ws))

\* Python truthiness of an Optional[str]
Truthy(s) == s # None /\ s # <<>>

\* variant: only None counts as missing
MissingAddressNoneOnly(addr) == addr = None

\* `if not listing_address`
MissingAddress(addr) == ~Truthy(addr)

\* str.replace("  ", " "): one left-to-right pass over non-overlapping pairs
RECURSIVE ReplaceDoubleSpace(_)
ReplaceDoubleSpace(s) ==
  IF Len(s) < 2 THEN s
  ELSE IF s[1] = " " /\ s[2] = " "
         THEN <<" ">> \o ReplaceDoubleSpace(SubSeq(s, 3, Len(s)))
         ELSE <<s[1]>> \o ReplaceDoubleSpace(Tail(s))

\* variant: addr.lower().replace("  ", " ") in place of split and join
normalize_addrReplaceOnce(addr) ==
  IF ~Truthy(addr) THEN <<>> ELSE ReplaceDoubleSpace(Lower(addr))

\* `if not addr: return ""`, then " ".join(addr.lower().split())
normalize_addr(addr) ==
  IF ~Truthy(addr) THEN <<>> ELSE JoinSpace(Split(Lower(addr)))

\* str.strip()
RECURSIVE LStrip(_)
LStrip(s) == IF s # <<>> /\ IsSpace(s[1]) THEN LStrip(Tail(s)) ELSE s

RECURSIVE RStrip(_)
RStrip(s) ==
  IF s # <<>> /\ IsSpace(s[Len(s)]) THEN RStrip(SubSeq(s, 1, Len(s) - 1)) ELSE s

Strip(s) == LStrip(RStrip(s))

\* s.split("-")[0]: the text before the first hyphen
RECURSIVE BeforeDash(_)
BeforeDash(s) ==
  IF s = <<>> \/ s[1] = "-" THEN <<>> ELSE <<s[1]>> \o BeforeDash(Tail(s))

BuildingAddr(norm) == Strip(BeforeDash(norm))

\* SQL LIKE: % matches any run of characters, _ any one character
RECURSIVE Like(_, _)
Like(text, pat) ==
  IF pat = <<>> THEN text = <<>>
  ELSE IF pat[1] = "%"
         THEN Like(text, Tail(pat)) \/ (text # <<>> /\ Like(Tail(text), pat))
  ELSE IF text = <<>> THEN FALSE
  ELSE (pat[1] = "_" \/ pat[1] = text[1]) /\ Like(Tail(text), Tail(pat))

\* column.ilike(pattern): case-insensitive LIKE; NULL columns never match
ILike(col, pat) == Text(col) /\ Like(Lower(col), Lower(pat))


(***************************************************************************)
(* The data store: the listing and properties tables.                      *)
(***************************************************************************)
Teams == {<<"T","1">>, <<"T","2">>}

\* Property rows in the order they are inserted into the properties table
Catalogue ==
  << [property_id |-> <<"P","1">>, team_id |-> <<"T","1">>,
      full_address |-> <<"a"," ","b">>, street_part |-> <<"a">>],
     [property_id |-> <<"P","2">>, team_id |-> <<"T","2">>,
      full_address |-> <<"a","-","b">>, street_part |-> <<"a">>],
     [property_id |-> <<"P","3">>, team_id |-> <<"T","1">>,
      full_address |-> <<"A"," ","b">>, street_part |-> <<"b">>],
     [property_id |-> <<"P","4">>, team_id |-> <<"T","2">>,
      full_address |-> <<"b">>, street_part |-> <<"b">>],
     [property_id |-> <<"P","5">>, team_id |-> <<"T","1">>,
      full_address |-> <<"b"," ","a">>, street_part |-> <<"b">>] >>

\* Listing rows: listing_id and the property_id the listing already carries
ListingIds == {<<"L","1">>, <<"L","2">>}

ListingPropertyId(lid) ==
  IF lid = <<"L","2">> THEN <<"P","2">> ELSE None

\* Raw addresses a caller may pass
Addresses ==
  { None, <<>>, <<" ">>, <<"A"," "," ","b">>, <<"a","-","b">>, <<"b","-","a">>,
    <<"b","b">> }

(***************************************************************************)
(* The embedding provider and the flat inner-product index.                *)
(***************************************************************************)
\* model.encode(text, normalize_embeddings=True): a vector of norm 10,
\* the same for the same text
Encode(text) ==
  CASE text = <<"a"," ","b">> -> <<10, 0>>
    [] text = <<"A"," ","b">> -> <<8, 6>>
    [] text = <<"a","-","b">> -> <<6, 8>>
    [] text = <<"b">>         -> <<8, 6>>
    [] text = <<"b","-","a">> -> <<-6, 8>>
    [] text = <<"b"," ","a">> -> <<0, 10>>
    [] text = <<"a">>         -> <<10, 0>>
    [] text = <<>>            -> <<-10, 0>>
    [] OTHER                  -> <<0, -10>>

\* inner product of two unit vectors, as 100 * cosine
InnerProduct(u, v) == u[1] * v[1] + u[2] * v[2]

\* IndexFlatIP.search(q, 1): the positions holding the largest inner product
Nearest(index, q) ==
  { i \in 1..Len(index) :
      \A j \in 1..Len(index) : InnerProduct(index[j], q) <= InnerProduct(index[i], q) }

(***************************************************************************)
(* Confidences, as 2000 * the float of the source.                         *)
(***************************************************************************)
ConfOne == 2000
ConfZero == 0
MIN_CONFIDENCE == 1600

\* variant: the building-level match reported with no confidence
ConfBuildingDropped == ConfZero

\* `return bldg_exact, 0.7`
ConfBuilding == 1400

\* variant: the similarity taken as the confidence, without s*0.5+0.5
FuzzyConfUnscaled(sim) == sim * 20

\* conf = sim * 0.5 + 0.5
FuzzyConf(sim) == sim * 10 + 1000

\* variant: + 0.9 in place of * 0.9
BuildingFuzzyConfAdded(sim) == FuzzyConf(sim) + 1800

\* conf2 = (sim2 * 0.5 + 0.5) * 0.9
BuildingFuzzyConf(sim) == (FuzzyConf(sim) * 9) \div 10

(***************************************************************************)
(* State.                                                                  *)
(***************************************************************************)
VARIABLES
  nProps,           \* rows of the properties table: Catalogue[1..nProps]
  team_cache,       \* _team_cache: team_id -> entry
  pc,               \* each caller's position in match_listing
  listing_id,       \* match_listing's arguments ...
  team_id,
  listing_address,
  norm_addr,        \* ... and locals
  rows,             \* _build_team_index's rows
  res,              \* the entry _team_resources returned
  result,           \* the (property_id, confidence) returned
  stage,            \* the return statement that produced result
  calls,            \* collaborators the call has used so far
  error,            \* the exception that escaped or was absorbed
  probe             \* a function under test on its own: its argument and values

vars == << probe, nProps, team_cache, pc, listing_id, team_id, listing_address,
           norm_addr, rows, res, result, stage, calls, error >>

Callers == 1..NumCallers

Properties == { Catalogue[i] : i \in 1..nProps }

NoEntry == [embeddings |-> <<>>, prop_ids |-> <<>>, index |-> <<>>]

NoResult == [property_id |-> None, confidence |-> -1]

NoError == [class |-> "", kind |-> ""]

NoProbe == [step |-> "none"]

\* Exceptions: the condition and the Python class it is raised as
NoPropertiesForTeam == [class |-> "ValueError", kind |-> "NoPropertiesForTeam"]

DataAccessFailure == [class |-> "SQLAlchemyError", kind |-> "DataAccessFailure"]

MultipleResultsFound == [class |-> "SQLAlchemyError", kind |-> "MultipleResultsFound"]

\* the provider's failures are of no fixed class
EmbeddingFailures ==
  { [class |-> c, kind |-> "EmbeddingFailure"] : c \in {"ValueError", "RuntimeError"} }

Init ==
  /\ nProps \in 0..MaxProps
  /\ team_cache = << >>
  /\ pc = [r \in Callers |-> "idle"]
  /\ listing_id = [r \in Callers |-> None]
  /\ team_id = [r \in Callers |-> None]
  /\ listing_address = [r \in Callers |-> None]
  /\ norm_addr = [r \in Callers |-> <<>>]
  /\ rows = [r \in Callers |-> <<>>]
  /\ res = [r \in Callers |-> NoEntry]
  /\ result = [r \in Callers |-> NoResult]
  /\ stage = [r \in Callers |-> ""]
  /\ calls = [r \in Callers |-> {}]
  /\ error = [r \in Callers |-> NoError]
  /\ probe = NoProbe

(***************************************************************************)
(* Leaving match_listing.                                                  *)
(***************************************************************************)
\* return pid, conf
Returns(r, pid, conf, at) ==
  /\ pc' = [pc EXCEPT ![r] = "done"]
  /\ result' = [result EXCEPT ![r] = [property_id |-> pid, confidence |-> conf]]
  /\ stage' = [stage EXCEPT ![r] = at]
  /\ error' = error

\* an exception raised outside the try block escapes
Raises(r, exc) ==
  /\ pc' = [pc EXCEPT ![r] = "raised"]
  /\ error' = [error EXCEPT ![r] = exc]
  /\ UNCHANGED << result, stage >>

\* variant: no handler around _team_resources
RaisesUncaught(r, exc) == Raises(r, exc)

\* an exception raised under `try: res = _team_resources(...)`:
\* `except ValueError: return None, 0.0`
RaisesInTry(r, exc) ==
  IF exc.class = "ValueError"
    THEN /\ pc' = [pc EXCEPT ![r] = "done"]
         /\ result' = [result EXCEPT ![r] =
                         [property_id |-> None, confidence |-> ConfZero]]
         /\ stage' = [stage EXCEPT ![r] = "except"]
         /\ error' = [error EXCEPT ![r] = exc]
    ELSE Raises(r, exc)

Goes(r, to) ==
  /\ pc' = [pc EXCEPT ![r] = to]
  /\ UNCHANGED << result, stage, error >>

Uses(r, what) == calls' = [calls EXCEPT ![r] = @ \cup what]

(***************************************************************************)
(* Queries of the data store.                                              *)
(***************************************************************************)
\* variant: the filter inverted to property_id IS NULL, which yields no id
ExistingPropertyIdInverted(lid) == None

\* select(Listing.property_id).where(listing_id == lid)
\*   .where(property_id.isnot(None)).scalar_one_or_none()
ExistingPropertyId(lid) == ListingPropertyId(lid)

\* select(Property.property_id).where(team_id == tid)
\*   .where(full_address.ilike(norm))
ExactRows(tid, norm) ==
  { p \in Properties : p.team_id = tid /\ ILike(p.full_address, norm) }

\* select(Property.property_id).where(team_id == tid)
\*   .where(street_part.ilike(base)).limit(1)
BuildingRows(tid, base) ==
  { p \in Properties : p.team_id = tid /\ ILike(p.street_part, base) }

\* variant: the index is built over every team's properties
TeamRowsAllTeams(tid) == Properties

\* select(Property.property_id, Property.full_address).where(team_id == tid)
TeamRows(tid) == { p \in Properties : p.team_id = tid }

\* .all() of a query with no ORDER BY: the rows in any order
Orderings(S) ==
  { q \in [1..Cardinality(S) -> S] : \A i, j \in DOMAIN q : q[i] = q[j] => i = j }

(***************************************************************************)
(* The team index cache.                                                   *)
(***************************************************************************)
\* variant: the ids kept in the reverse of the order of the encoded addresses
BuildEntryMisaligned(rs) ==
  LET embs == [i \in 1..Len(rs) |-> Encode(rs[i].full_address)]
  IN  [embeddings |-> embs,
       prop_ids |-> [i \in 1..Len(rs) |-> rs[Len(rs) + 1 - i].property_id],
       index |-> embs]

\* prop_ids, addrs = zip(*rows); embs = model.encode(addrs); idx.add(embs)
BuildEntry(rs) ==
  LET embs == [i \in 1..Len(rs) |-> Encode(rs[i].full_address)]
  IN  [embeddings |-> embs,
       prop_ids |-> [i \in 1..Len(rs) |-> rs[i].property_id],
       index |-> embs]

\* _team_cache[tid] = entry
Publish(cache, tid, entry) ==
  [t \in DOMAIN cache \cup {tid} |-> IF t = tid THEN entry ELSE cache[t]]

\* team_id in _team_cache
Cached(tid) == tid \in DOMAIN team_cache

\* callers inside _build_team_index(tid)
Building(tid) ==
  { r \in Callers : pc[r] \in {"build_query", "build_publish"} /\ team_id[r] = tid }

\* build-count instrumentation: the build that stored tid's entry, if any,
\* and the builds under way
BuildCount(tid) == (IF Cached(tid) THEN 1 ELSE 0) + Cardinality(Building(tid))

(***************************************************************************)
(* match_listing, one action per step between accesses to shared state.    *)
(***************************************************************************)
\* the call, and `if not listing_address: return None, 0.0`
Enter(r) ==
  /\ pc[r] = "idle"
  /\ \E lid \in ListingIds, tid \in Teams, addr \in Addresses :
       /\ listing_id' = [listing_id EXCEPT ![r] = lid]
       /\ team_id' = [team_id EXCEPT ![r] = tid]
       /\ listing_address' = [listing_address EXCEPT ![r] = addr]
       /\ IF MissingAddress(addr)
            THEN /\ Returns(r, None, ConfZero, "missing_address")
                 /\ UNCHANGED norm_addr
            ELSE /\ norm_addr' = [norm_addr EXCEPT ![r] = normalize_addr(addr)]
                 /\ Goes(r, "prematch")
  /\ UNCHANGED << probe, nProps, team_cache, rows, res, calls >>

\* 0. pre-match
PreMatch(r) ==
  /\ pc[r] = "prematch"
  /\ Uses(r, {"db"})
  /\ \/ Raises(r, DataAccessFailure)
     \/ LET existing == ExistingPropertyId(listing_id[r])
        IN  IF Truthy(existing)
              THEN Returns(r, existing, ConfOne, "prematch")
              ELSE Goes(r, "exact")
  /\ UNCHANGED << probe, nProps, team_cache, listing_id, team_id,
                  listing_address, norm_addr, rows, res >>

\* 1. exact; scalar_one_or_none() raises on more than one row
Exact(r) ==
  /\ pc[r] = "exact"
  /\ Uses(r, {"db"})
  /\ \/ Raises(r, DataAccessFailure)
     \/ LET found == ExactRows(team_id[r], norm_addr[r])
        IN  IF Cardinality(found) > 1
              THEN Raises(r, MultipleResultsFound)
              ELSE IF \E p \in found : Truthy(p.property_id)
                     THEN \E p \in found :
                            Returns(r, p.property_id, ConfOne, "exact")
                     ELSE Goes(r, "resources")
  /\ UNCHANGED << probe, nProps, team_cache, listing_id, team_id,
                  listing_address, norm_addr, rows, res >>

\* 2. _team_resources: `if team_id not in _team_cache` and, on a hit,
\* `return _team_cache[team_id]`
TeamResources(r) ==
  /\ pc[r] = "resources"
  /\ IF Cached(team_id[r])
       THEN /\ res' = [res EXCEPT ![r] = team_cache[team_id[r]]]
            /\ Goes(r, "fuzzy")
            /\ UNCHANGED calls
       ELSE /\ Uses(r, {"build"})
            /\ Goes(r, "build_query")
            /\ UNCHANGED res
  /\ UNCHANGED << probe, nProps, team_cache, listing_id, team_id, listing_address,
                  norm_addr, rows >>

\* variant: an empty team's (empty) entry is stored before the failure is raised
BuildQueryCachingEmpty(r) ==
  /\ pc[r] = "build_query"
  /\ Uses(r, {"db"})
  /\ \/ /\ RaisesInTry(r, DataAccessFailure)
        /\ UNCHANGED << rows, team_cache >>
     \/ \E order \in Orderings(TeamRows(team_id[r])) :
          IF order = <<>>
            THEN /\ RaisesInTry(r, NoPropertiesForTeam)
                 /\ team_cache' = Publish(team_cache, team_id[r], BuildEntry(order))
                 /\ UNCHANGED rows
            ELSE /\ rows' = [rows EXCEPT ![r] = order]
                 /\ Goes(r, "build_publish")
                 /\ UNCHANGED team_cache
  /\ UNCHANGED << probe, nProps, listing_id, team_id,
                  listing_address, norm_addr, res >>

\* _build_team_index: the rows query and `if not rows: raise ValueError`
BuildQuery(r) ==
  /\ pc[r] = "build_query"
  /\ Uses(r, {"db"})
  /\ \/ /\ RaisesInTry(r, DataAccessFailure)
        /\ UNCHANGED rows
     \/ \E order \in Orderings(TeamRows(team_id[r])) :
          IF order = <<>>
            THEN /\ RaisesInTry(r, NoPropertiesForTeam)
                 /\ UNCHANGED rows
            ELSE /\ rows' = [rows EXCEPT ![r] = order]
                 /\ Goes(r, "build_publish")
  /\ UNCHANGED << probe, nProps, team_cache, listing_id, team_id,
                  listing_address, norm_addr, res >>

\* _build_team_index: encode, build the index, store the entry
BuildPublish(r) ==
  /\ pc[r] = "build_publish"
  /\ \/ /\ \E exc \in EmbeddingFailures : RaisesInTry(r, exc)
        /\ Uses(r, {"embed"})
        /\ UNCHANGED team_cache
     \/ /\ team_cache' = Publish(team_cache, team_id[r], BuildEntry(rows[r]))
        /\ Uses(r, {"embed", "publish"})
        /\ Goes(r, "resources_return")
  /\ UNCHANGED << probe, nProps, listing_id, team_id, listing_address,
                  norm_addr, rows, res >>

\* _team_resources after a build: `return _team_cache[team_id]`
ResourcesReturn(r) ==
  /\ pc[r] = "resources_return"
  /\ res' = [res EXCEPT ![r] = team_cache[team_id[r]]]
  /\ Goes(r, "fuzzy")
  /\ UNCHANGED << probe, nProps, team_cache, listing_id, team_id,
                  listing_address, norm_addr, rows, calls >>

\* variant: the nearest neighbour is returned whatever its confidence
FuzzyNoThreshold(r) ==
  /\ pc[r] = "fuzzy"
  /\ \/ /\ \E exc \in EmbeddingFailures : Raises(r, exc)
        /\ Uses(r, {"embed"})
     \/ /\ \E i \in Nearest(res[r].index, Encode(norm_addr[r])) :
             LET sim == InnerProduct(res[r].index[i], Encode(norm_addr[r]))
                 conf == FuzzyConf(sim)
             IN  Returns(r, res[r].prop_ids[i], conf, "fuzzy")
        /\ Uses(r, {"embed", "search"})
  /\ UNCHANGED << probe, nProps, team_cache, listing_id, team_id,
                  listing_address, norm_addr, rows, res >>

\* 2. fuzzy: encode the address, search, threshold
Fuzzy(r) ==
  /\ pc[r] = "fuzzy"
  /\ \/ /\ \E exc \in EmbeddingFailures : Raises(r, exc)
        /\ Uses(r, {"embed"})
     \/ /\ \E i \in Nearest(res[r].index, Encode(norm_addr[r])) :
             LET sim == InnerProduct(res[r].index[i], Encode(norm_addr[r]))
                 conf == FuzzyConf(sim)
             IN  IF conf >= MIN_CONFIDENCE
                   THEN Returns(r, res[r].prop_ids[i], conf, "fuzzy")
                   ELSE Goes(r, "bldg_exact")
        /\ Uses(r, {"embed", "search"})
  /\ UNCHANGED << probe, nProps, team_cache, listing_id, team_id,
                  listing_address, norm_addr, rows, res >>

\* 3. building fallback, exact on street_part
BuildingExact(r) ==
  /\ pc[r] = "bldg_exact"
  /\ Uses(r, {"db"})
  /\ \/ Raises(r, DataAccessFailure)
     \/ LET found == BuildingRows(team_id[r], BuildingAddr(norm_addr[r]))
        IN  IF \E p \in found : Truthy(p.property_id)
              THEN \E p \in found :
                     /\ Truthy(p.property_id)
                     /\ Returns(r, p.property_id, ConfBuilding, "bldg_exact")
              ELSE Goes(r, "bldg_fuzzy")
  /\ UNCHANGED << probe, nProps, team_cache, listing_id, team_id,
                  listing_address, norm_addr, rows, res >>

\* variant: when stage 3b is below the threshold, the better of the two
\* fuzzy attempts is returned instead of abstaining
BuildingFuzzyBestOf(r) ==
  /\ pc[r] = "bldg_fuzzy"
  /\ \/ /\ \E exc \in EmbeddingFailures : Raises(r, exc)
        /\ Uses(r, {"embed"})
     \/ /\ \E i \in Nearest(res[r].index, Encode(BuildingAddr(norm_addr[r]))),
              k \in Nearest(res[r].index, Encode(norm_addr[r])) :
             LET sim2 == InnerProduct(res[r].index[i],
                                      Encode(BuildingAddr(norm_addr[r])))
                 conf2 == BuildingFuzzyConf(sim2)
                 conf == FuzzyConf(InnerProduct(res[r].index[k],
                                                Encode(norm_addr[r])))
             IN  IF conf2 >= MIN_CONFIDENCE
                   THEN Returns(r, res[r].prop_ids[i], conf2, "bldg_fuzzy")
                   ELSE IF conf > conf2
                          THEN Returns(r, res[r].prop_ids[k], conf, "bldg_fuzzy")
                          ELSE Returns(r, None, ConfZero, "abstain")
        /\ Uses(r, {"embed", "search"})
  /\ UNCHANGED << probe, nProps, team_cache, listing_id, team_id,
                  listing_address, norm_addr, rows, res >>

\* 3b. building fallback, fuzzy; 4. abstain
BuildingFuzzy(r) ==
  /\ pc[r] = "bldg_fuzzy"
  /\ \/ /\ \E exc \in EmbeddingFailures : Raises(r, exc)
        /\ Uses(r, {"embed"})
     \/ /\ \E i \in Nearest(res[r].index, Encode(BuildingAddr(norm_addr[r]))) :
             LET sim2 == InnerProduct(res[r].index[i],
                                      Encode(BuildingAddr(norm_addr[r])))
                 conf2 == BuildingFuzzyConf(sim2)
             IN  IF conf2 >= MIN_CONFIDENCE
                   THEN Returns(r, res[r].prop_ids[i], conf2, "bldg_fuzzy")
                   ELSE Returns(r, None, ConfZero, "abstain")
        /\ Uses(r, {"embed", "search"})
  /\ UNCHANGED << probe, nProps, team_cache, listing_id, team_id,
                  listing_address, norm_addr, rows, res >>

\* the caller takes the result (or the exception); the frame is gone
Return(r) ==
  /\ pc[r] \in {"done", "raised"}
  /\ pc' = [pc EXCEPT ![r] = "idle"]
  /\ listing_id' = [listing_id EXCEPT ![r] = None]
  /\ team_id' = [team_id EXCEPT ![r] = None]
  /\ listing_address' = [listing_address EXCEPT ![r] = None]
  /\ norm_addr' = [norm_addr EXCEPT ![r] = <<>>]
  /\ rows' = [rows EXCEPT ![r] = <<>>]
  /\ res' = [res EXCEPT ![r] = NoEntry]
  /\ result' = [result EXCEPT ![r] = NoResult]
  /\ stage' = [stage EXCEPT ![r] = ""]
  /\ calls' = [calls EXCEPT ![r] = {}]
  /\ error' = [error EXCEPT ![r] = NoError]
  /\ UNCHANGED << probe, nProps, team_cache >>

\* a property is inserted into the properties table
AddProperty ==
  /\ nProps < MaxProps
  /\ nProps' = nProps + 1
  /\ UNCHANGED << probe, team_cache, pc, listing_id, team_id, listing_address,
                  norm_addr, rows, res, result, stage, calls, error >>

Next ==
  \/ \E r \in Callers :
       \/ Enter(r)
       \/ PreMatch(r)
       \/ Exact(r)
       \/ TeamResources(r)
       \/ BuildQuery(r)
       \/ BuildPublish(r)
       \/ ResourcesReturn(r)
       \/ Fuzzy(r)
       \/ BuildingExact(r)
       \/ BuildingFuzzy(r)
       \/ Return(r)
  \/ AddProperty

Spec == Init /\ [][Next]_vars

(***************************************************************************)
(* Vocabulary of the properties.                                           *)
(***************************************************************************)
Done(r) == pc[r] = "done"

Abstained(r) == result[r] = [property_id |-> None, confidence |-> ConfZero]

Matched(r, pid, conf) == result[r] = [property_id |-> pid, confidence |-> conf]

\* some row of the properties table with this id belongs to team tid
BelongsTo(pid, tid) ==
  \E p \in Properties : p.property_id = pid /\ p.team_id = tid

BelongsToOtherTeam(pid, tid) ==
  \E p \in Properties : p.property_id = pid /\ p.team_id # tid

InfrastructureFailure(exc) == exc.kind \in {"DataAccessFailure", "EmbeddingFailure"}

(***************************************************************************)
(* C1.  At most one index build per team is in flight at any time, and a   *)
(* team's index is built once: concurrent first requests for a never-seen  *)
(* team (one that has properties, so that the requests reach the fuzzy     *)
(* stage) trigger exactly one build.                                       *)
(***************************************************************************)
C1_OneBuildPerTeam ==
  \A t \in Teams :
    TeamRows(t) # {} =>
      /\ Cardinality(Building(t)) <= 1
      /\ BuildCount(t) <= 1

(***************************************************************************)
(* C2.  Every result match_listing returns has confidence 0.0 exactly when *)
(* its property id is None.                                                *)
(***************************************************************************)
C2_AbstentionInvariant ==
  \A r \in Callers :
    Done(r) => (result[r].confidence = ConfZero <=> result[r].property_id = None)

\* an abstention after both fuzzy searches and a building-level match, side by side
C2_Witness ==
  \E r1, r2 \in Callers :
    /\ Done(r1) /\ stage[r1] = "abstain" /\ Abstained(r1)
    /\ Done(r2) /\ stage[r2] = "bldg_exact"
    /\ result[r2].property_id # None /\ result[r2].confidence = ConfBuilding

(***************************************************************************)
(* C3 as stated.  A listing that carries a property_id gets that id with   *)
(* confidence 1.0, for any address and any team.                           *)
(***************************************************************************)
C3_PreMatchAnyAddress ==
  \A r \in Callers :
    (Done(r) /\ ListingPropertyId(listing_id[r]) # None)
      => Matched(r, ListingPropertyId(listing_id[r]), ConfOne)

(***************************************************************************)
(* C3 amended.  A listing that carries a non-empty property_id and is      *)
(* submitted with a non-empty address gets that id with confidence 1.0     *)
(* whenever the call returns, for any team and whatever the exact and      *)
(* fuzzy stages would select.                                              *)
(***************************************************************************)
C3_PreMatchWins ==
  \A r \in Callers :
    (Done(r) /\ Truthy(ListingPropertyId(listing_id[r]))
             /\ Truthy(listing_address[r]))
      => Matched(r, ListingPropertyId(listing_id[r]), ConfOne)

\* the listing's id is returned although the exact stage would select another
C3_Witness ==
  \E r \in Callers :
    /\ Done(r) /\ stage[r] = "prematch"
    /\ \E p \in ExactRows(team_id[r], norm_addr[r]) :
         p.property_id # ListingPropertyId(listing_id[r])
    /\ Matched(r, ListingPropertyId(listing_id[r]), ConfOne)

(***************************************************************************)
(* C4.  When an exact query finds several rows (stage 1 on full_address,   *)
(* stage 3 on street_part) the call takes one of them and returns it, with *)
(* confidence 1.0 at stage 1 and 0.7 at stage 3.                           *)
(***************************************************************************)
C4_FirstRowWins ==
  [][ \A r \in Callers :
        /\ ( /\ pc[r] = "exact" /\ pc'[r] # "exact"
             /\ Cardinality(ExactRows(team_id[r], norm_addr[r])) > 1
             /\ ~InfrastructureFailure(error'[r]) )
           => /\ pc'[r] = "done"
              /\ result'[r].confidence = ConfOne
              /\ \E p \in ExactRows(team_id[r], norm_addr[r]) :
                   result'[r].property_id = p.property_id
        /\ ( /\ pc[r] = "bldg_exact" /\ pc'[r] # "bldg_exact"
             /\ Cardinality(BuildingRows(team_id[r], BuildingAddr(norm_addr[r]))) > 1
             /\ ~InfrastructureFailure(error'[r]) )
           => /\ pc'[r] = "done"
              /\ result'[r].confidence = ConfBuilding
              /\ \E p \in BuildingRows(team_id[r], BuildingAddr(norm_addr[r])) :
                   result'[r].property_id = p.property_id
    ]_vars

(***************************************************************************)
(* C5 as stated.  A request for team A never returns a property of another *)
(* team B, at any stage, the pre-match included.                           *)
(***************************************************************************)
C5_NoOtherTeamAnyStage ==
  \A r \in Callers :
    Done(r) => ~BelongsToOtherTeam(result[r].property_id, team_id[r])

(***************************************************************************)
(* C5 amended.  Every id returned by the exact, fuzzy and building stages  *)
(* is the id of a property of the request's team; only the pre-match stage *)
(* returns an id without regard to the team.                               *)
(***************************************************************************)
C5_TeamIsolation ==
  \A r \in Callers :
    (Done(r) /\ result[r].property_id # None /\ stage[r] # "prematch")
      => /\ BelongsTo(result[r].property_id, team_id[r])
         /\ ~BelongsToOtherTeam(result[r].property_id, team_id[r])

\* a fuzzy match within team A while team B holds the very address asked for
C5_Witness ==
  \E r \in Callers :
    /\ Done(r) /\ stage[r] = "fuzzy"
    /\ \E p \in Properties :
         p.team_id # team_id[r] /\ p.full_address = norm_addr[r]
    /\ BelongsTo(result[r].property_id, team_id[r])

(***************************************************************************)
(* C6.  With a property of the request's team whose full address equals    *)
(* the normalized address, and no id on the listing, the call returns      *)
(* confidence 1.0 from the exact stage: no index build, no embedding and   *)
(* no search happen in that request.                                       *)
(***************************************************************************)
C6_ExactBeforeFuzzy ==
  [][ \A r \in Callers :
        ( /\ pc[r] = "exact" /\ pc'[r] # "exact"
          /\ \E p \in Properties :
               p.team_id = team_id[r] /\ p.full_address = norm_addr[r]
          /\ ~InfrastructureFailure(error'[r]) )
        => /\ pc'[r] = "done"
           /\ result'[r].confidence = ConfOne
           /\ calls'[r] \cap {"build", "embed", "search"} = {}
    ]_vars

(***************************************************************************)
(* C7.  The NoPropertiesForTeam condition raised by the index build for a  *)
(* team with zero properties is absorbed: the call returns (None, 0.0) and *)
(* no error escapes.                                                       *)
(***************************************************************************)
C7_NoPropertiesAbsorbed ==
  \A r \in Callers :
    error[r].kind = "NoPropertiesForTeam" => (Done(r) /\ Abstained(r))

\* a request that got as far as the build for a team with no properties
C7_Witness ==
  \E r \in Callers :
    /\ Done(r) /\ Abstained(r)
    /\ error[r].kind = "NoPropertiesForTeam"
    /\ TeamRows(team_id[r]) = {}
    /\ "build" \in calls[r]

(***************************************************************************)
(* C8.  A failed index build is not cached: the step in which a build      *)
(* fails for want of properties leaves the cache as it was, with no entry  *)
(* for that team, and no entry of the cache is ever empty; once properties *)
(* exist a later request builds and stores a non-empty entry and matches.  *)
(***************************************************************************)
C8_FailedBuildNotCached ==
  /\ [](\A t \in DOMAIN team_cache : Len(team_cache[t].prop_ids) > 0)
  /\ [][ \A r \in Callers :
           (error[r].kind # "NoPropertiesForTeam"
              /\ error'[r].kind = "NoPropertiesForTeam")
           => (team_cache' = team_cache /\ team_id[r] \notin DOMAIN team_cache')
       ]_vars

\* one caller's build failed; after properties were added another caller built
\* the team's entry and matched through it
C8_Witness ==
  \E r1, r2 \in Callers :
    /\ error[r1].kind = "NoPropertiesForTeam"
    /\ team_id[r2] = team_id[r1]
    /\ Done(r2) /\ stage[r2] = "fuzzy" /\ "publish" \in calls[r2]
    /\ Cached(team_id[r1])
    /\ Len(team_cache[team_id[r1]].prop_ids) > 0

(***************************************************************************)
(* C9.  A data-access or embedding failure at any stage, the index build   *)
(* included, escapes to the caller, is never turned into an abstention or  *)
(* a match, and the failing request has not changed the team index cache.  *)
(***************************************************************************)
C9_FailuresEscape ==
  \A r \in Callers :
    InfrastructureFailure(error[r])
      => (pc[r] = "raised" /\ "publish" \notin calls[r])

(***************************************************************************)
(* C10.  A request whose address is None or the empty string returns       *)
(* (None, 0.0) at once: no data-store query, no embedding call, no index   *)
(* build, no change of the cache.                                          *)
(***************************************************************************)
C10_MissingAddressAbstains ==
  \A r \in Callers :
    (pc[r] # "idle" /\ listing_address[r] \in {None, <<>>})
      => (Done(r) /\ Abstained(r) /\ calls[r] = {})

\* an empty address on a listing that carries a property id
C10_Witness ==
  \E r \in Callers :
    /\ Done(r) /\ listing_address[r] = <<>>
    /\ ListingPropertyId(listing_id[r]) # None
    /\ Abstained(r) /\ calls[r] = {}

(***************************************************************************)
(* The service boundary: what POST /match answers for a finished call.     *)
(***************************************************************************)
\* match: `except ValueError` -> HTTPException(404); a returned pair -> 200;
\* any other exception is the framework's 500
HttpStatus(r) ==
  CASE pc[r] = "done" -> 200
    [] pc[r] = "raised" /\ error[r].class = "ValueError" -> 404
    [] OTHER -> 500

Finished(r) == pc[r] \in {"done", "raised"}

(***************************************************************************)
(* C11.  At POST /match a request whose run hits the NoPropertiesForTeam   *)
(* condition is answered with a 404 (not found) response.                  *)
(***************************************************************************)
C11_NoPropertiesIs404 ==
  \A r \in Callers :
    (Finished(r) /\ error[r].kind = "NoPropertiesForTeam") => HttpStatus(r) = 404

(***************************************************************************)
(* normalize_addr on its own: every short text over letters of both cases  *)
(* and whitespace, and None, is normalised and the outcome normalised      *)
(* again.                                                                  *)
(***************************************************************************)
\* longest text given to normalize_addr
MaxLen == 3

Alphabet == {"a", "A", "B", " ", "\t"}

TextsUpTo(n) == UNION { [1..k -> Alphabet] : k \in 0..n }

matcher_vars == << nProps, team_cache, pc, listing_id, team_id, listing_address,
                   norm_addr, rows, res, result, stage, calls, error >>

\* no request has been made and the properties table is empty
NoRequests ==
  /\ nProps = 0
  /\ team_cache = << >>
  /\ pc = [r \in Callers |-> "idle"]
  /\ listing_id = [r \in Callers |-> None]
  /\ team_id = [r \in Callers |-> None]
  /\ listing_address = [r \in Callers |-> None]
  /\ norm_addr = [r \in Callers |-> <<>>]
  /\ rows = [r \in Callers |-> <<>>]
  /\ res = [r \in Callers |-> NoEntry]
  /\ result = [r \in Callers |-> NoResult]
  /\ stage = [r \in Callers |-> ""]
  /\ calls = [r \in Callers |-> {}]
  /\ error = [r \in Callers |-> NoError]

NormInit ==
  /\ NoRequests
  /\ \E a \in TextsUpTo(MaxLen) \cup {None} :
       probe = [step |-> "input", addr |-> a, once |-> <<>>, twice |-> <<>>]

\* once = normalize_addr(addr)
Normalize ==
  /\ probe.step = "input"
  /\ probe' = [probe EXCEPT !.step = "once", !.once = normalize_addr(probe.addr)]
  /\ UNCHANGED matcher_vars

\* twice = normalize_addr(once)
Renormalize ==
  /\ probe.step = "once"
  /\ probe' = [probe EXCEPT !.step = "twice", !.twice = normalize_addr(probe.once)]
  /\ UNCHANGED matcher_vars

NormNext == Normalize \/ Renormalize

NormSpec == NormInit /\ [][NormNext]_vars

(***************************************************************************)
(* C12.  normalize_addr is total and idempotent: normalising an already    *)
(* normalised address returns it unchanged, and None and the empty string  *)
(* both normalise to the empty string.                                     *)
(***************************************************************************)
C12_NormalizeIdempotent ==
  /\ probe.step \in {"once", "twice"} =>
       /\ Text(probe.once)
       /\ MissingAddress(probe.addr) => probe.once = <<>>
  /\ probe.step = "twice" => probe.twice = probe.once

\* mixed case and a run of whitespace, normalised twice
C12_Witness ==
  /\ probe.step = "twice"
  /\ probe.addr = <<"A", " ", "\t">> \/ probe.addr = <<"A", "\t", "B">>
  /\ probe.once # probe.addr
  /\ probe.once # <<>>

(***************************************************************************)
(* The confidence mappings on their own, for every cosine similarity in    *)
(* [-1, 1] in steps of 0.01, beside the matcher itself.                    *)
(***************************************************************************)
\* cosine similarities of unit vectors, as integers 100*s
Cosines == -100..100

ConfInit ==
  \/ Init
  \/ /\ NoRequests
     /\ \E s \in Cosines :
          probe = [step |-> "input", sim |-> s, conf |-> ConfZero, conf2 |-> ConfZero]

\* conf = sim * 0.5 + 0.5
MapFuzzy ==
  /\ probe.step = "input"
  /\ probe' = [probe EXCEPT !.step = "fuzzy", !.conf = FuzzyConf(probe.sim)]
  /\ UNCHANGED matcher_vars

\* conf2 = (sim2 * 0.5 + 0.5) * 0.9
MapBuilding ==
  /\ probe.step = "fuzzy"
  /\ probe' = [probe EXCEPT !.step = "building",
                            !.conf2 = BuildingFuzzyConf(probe.sim)]
  /\ UNCHANGED matcher_vars

ConfNext ==
  \/ MapFuzzy
  \/ MapBuilding
  \/ (probe = NoProbe /\ Next)

ConfSpec == ConfInit /\ [][ConfNext]_vars

(***************************************************************************)
(* C13.  For every cosine similarity in [-1, 1] the stage-2 confidence     *)
(* s*0.5+0.5 lies in [0, 1] and the stage-3b confidence is at most 0.9     *)
(* times that value; hence every confidence match_listing returns lies in  *)
(* [0, 1].                                                                 *)
(***************************************************************************)
C13_ConfidenceInUnitInterval ==
  /\ probe.step \in {"fuzzy", "building"} =>
       /\ probe.conf >= 0
       /\ probe.conf <= 2000
  /\ probe.step = "building" =>
       /\ probe.conf2 >= 0
       /\ 10 * probe.conf2 <= 9 * probe.conf
  /\ \A r \in Callers :
       Done(r) => /\ result[r].confidence >= 0
                  /\ result[r].confidence <= 2000

\* the two ends of the range, mapped by both stages
C13_Witness ==
  /\ probe.step = "building"
  /\ probe.sim = 100
  /\ probe.conf = 2000
  /\ probe.conf2 = 1800

(***************************************************************************)
(* C14.  Once a team's entry is published no later request, under any      *)
(* interleaving, mutates or replaces it: a step changes the cache at most  *)
(* by adding the entry of a team that had none, and leaves every entry     *)
(* already there as it was.                                                *)
(***************************************************************************)
C14_PublishedEntryStable ==
  [][\A t \in DOMAIN team_cache :
       /\ t \in DOMAIN team_cache'
       /\ team_cache'[t] = team_cache[t]]_vars

(***************************************************************************)
(* C15.  Every cached entry is fully constructed: it is non-empty, its     *)
(* ids, embeddings and index have the same length, position i of the ids   *)
(* names the property whose address produced row i of the embeddings and   *)
(* of the index, and every id is a property of the team the entry is       *)
(* stored under.  The entry appears in the cache in one step, whole.       *)
(***************************************************************************)
FullyConstructed(tid, entry) ==
  /\ Len(entry.prop_ids) > 0
  /\ Len(entry.embeddings) = Len(entry.prop_ids)
  /\ Len(entry.index) = Len(entry.prop_ids)
  /\ \A i \in 1..Len(entry.prop_ids) :
       \E p \in Properties :
         /\ p.property_id = entry.prop_ids[i]
         /\ p.team_id = tid
         /\ entry.embeddings[i] = Encode(p.full_address)
         /\ entry.index[i] = entry.embeddings[i]

C15_EntriesFullyConstructed ==
  \A t \in DOMAIN team_cache : FullyConstructed(t, team_cache[t])

\* an entry of two rows whose addresses encode differently
C15_Witness ==
  \E t \in DOMAIN team_cache :
    /\ Len(team_cache[t].prop_ids) = 2
    /\ team_cache[t].embeddings[1] # team_cache[t].embeddings[2]

(***************************************************************************)
(* The batch job's row for a listing, beside match_listing's decision for  *)
(* the same listing id, team and address.                                  *)
(***************************************************************************)
\* round(conf, 4): to the nearest ten-thousandth, here of conf/2000
Round4(conf) ==
  LET tenThousandths == (2 * 5 * conf + 1) \div 2
  IN  tenThousandths \div 5

\* `if pre: rows.append(pre, 1.0)`, else match_listing's pair with the
\* confidence rounded
BatchRow(r) ==
  LET pre == ListingPropertyId(listing_id[r])
  IN  IF Truthy(pre)
        THEN [property_id |-> pre, confidence |-> ConfOne]
        ELSE [property_id |-> result[r].property_id,
              confidence |-> Round4(result[r].confidence)]

(***************************************************************************)
(* C16.  Each row of the batch job carries the (property_id, confidence)   *)
(* that match_listing yields for the listing's id, team and address,       *)
(* also for a listing with a missing or empty address that already         *)
(* carries a property_id.                                                  *)
(***************************************************************************)
C16_BatchRowIsPipelineDecision ==
  \A r \in Callers : Done(r) => BatchRow(r) = result[r]

(***************************************************************************)
(* C17.  A listing with no usable address (missing, empty or made of       *)
(* whitespace only, so that its normalised form is the empty string) is    *)
(* resolved as the abstention (None, 0.0) and never reaches the pre-match, *)
(* exact, fuzzy or building stages.                                        *)
(***************************************************************************)
C17_UnusableAddressAbstains ==
  \A r \in Callers :
    (pc[r] # "idle" /\ normalize_addr(listing_address[r]) = <<>>) =>
      /\ Done(r)
      /\ Abstained(r)
      /\ stage[r] = "missing_address"
      /\ calls[r] = {}

(***************************************************************************)
(* What stages 2 and 3b compute for a caller from the entry it holds and   *)
(* its normalised address.                                                 *)
(***************************************************************************)
BestSim(index, q) ==
  LET i == CHOOSE k \in Nearest(index, q) : TRUE
  IN  InnerProduct(index[i], q)

Stage2Conf(r) == FuzzyConf(BestSim(res[r].index, Encode(norm_addr[r])))

Stage2Cands(r) ==
  { res[r].prop_ids[i] : i \in Nearest(res[r].index, Encode(norm_addr[r])) }

Stage3bConf(r) ==
  BuildingFuzzyConf(BestSim(res[r].index, Encode(BuildingAddr(norm_addr[r]))))

Stage3bCands(r) ==
  { res[r].prop_ids[i] :
      i \in Nearest(res[r].index, Encode(BuildingAddr(norm_addr[r]))) }

\* the result of a call that got as far as stage 2, by the stage that gave it
StageOutcome(r) ==
  /\ (Done(r) /\ stage[r] = "fuzzy") =>
       /\ Stage2Conf(r) >= 1600
       /\ result[r].confidence = Stage2Conf(r)
       /\ result[r].property_id \in Stage2Cands(r)
  /\ (Done(r) /\ stage[r] = "bldg_exact") =>
       /\ Stage2Conf(r) < 1600
       /\ result[r].confidence = 1400
       /\ BelongsTo(result[r].property_id, team_id[r])
  /\ (Done(r) /\ stage[r] = "bldg_fuzzy") =>
       /\ Stage2Conf(r) < 1600
       /\ Stage3bConf(r) >= 1600
       /\ result[r].confidence = Stage3bConf(r)
       /\ result[r].property_id \in Stage3bCands(r)
  /\ (Done(r) /\ stage[r] = "abstain") =>
       /\ Stage2Conf(r) < 1600
       /\ Stage3bConf(r) < 1600
       /\ Abstained(r)

\* the order of the steps of match_listing
StageSteps ==
  { <<"idle", "prematch">>, <<"idle", "done">>,
    <<"prematch", "exact">>, <<"prematch", "done">>, <<"prematch", "raised">>,
    <<"exact", "resources">>, <<"exact", "done">>, <<"exact", "raised">>,
    <<"resources", "fuzzy">>, <<"resources", "build_query">>,
    <<"build_query", "build_publish">>, <<"build_query", "done">>,
    <<"build_query", "raised">>,
    <<"build_publish", "resources_return">>, <<"build_publish", "done">>,
    <<"build_publish", "raised">>,
    <<"resources_return", "fuzzy">>,
    <<"fuzzy", "bldg_exact">>, <<"fuzzy", "done">>, <<"fuzzy", "raised">>,
    <<"bldg_exact", "bldg_fuzzy">>, <<"bldg_exact", "done">>,
    <<"bldg_exact", "raised">>,
    <<"bldg_fuzzy", "done">>, <<"bldg_fuzzy", "raised">>,
    <<"done", "idle">>, <<"raised", "idle">> }

\* a step of caller r follows the order, and a stage 2 that clears the bar
\* ends the call there, with no building-level lookup
InStageOrder(r) ==
  /\ pc'[r] # pc[r] => <<pc[r], pc'[r]>> \in StageSteps
  /\ (pc[r] = "fuzzy" /\ pc'[r] = "bldg_exact") => Stage2Conf(r) < 1600
  /\ (pc[r] = "fuzzy" /\ pc'[r] = "done") =>
       /\ Stage2Conf(r) >= 1600
       /\ stage'[r] = "fuzzy"

(***************************************************************************)
(* C18.  The first stage to clear the bar wins and the stages are visited  *)
(* in order: a stage-2 confidence of at least MIN_CONFIDENCE gives the     *)
(* stage-2 nearest neighbour with that confidence; when stage 2 is below   *)
(* the threshold its candidate is never returned later, and when stages 3  *)
(* and 3b fail as well the result is the abstention.                       *)
(***************************************************************************)
C18_Stage2CandidateNeverLater ==
  \A r \in Callers :
    /\ StageOutcome(r)
    /\ (Done(r) /\ stage[r] \in {"bldg_exact", "bldg_fuzzy"}) =>
         Stage2Cands(r) # {result[r].property_id}

(***************************************************************************)
(* C18, amended.  The stages are visited in order and the first to clear   *)
(* the bar wins: a stage-2 confidence of at least MIN_CONFIDENCE gives the *)
(* stage-2 nearest neighbour with that confidence and no building-level    *)
(* lookup; when stage 2 is below the threshold, a later match is stage 3's *)
(* exact building match at 0.7 or stage 3b's nearest neighbour at a        *)
(* confidence of at least MIN_CONFIDENCE (either may be the property that  *)
(* stage 2 rejected), and when both fail the result is the abstention,     *)
(* whatever the stage-2 confidence was.                                    *)
(***************************************************************************)
C18_FirstStageWins ==
  /\ [](\A r \in Callers : StageOutcome(r))
  /\ [][\A r \in Callers : InStageOrder(r)]_vars

\* an abstention although stage 2 scored above stage 3b
C18_Witness ==
  \E r \in Callers :
    /\ Done(r)
    /\ stage[r] = "abstain"
    /\ Stage2Conf(r) > Stage3bConf(r)

(***************************************************************************)
(* C19.  Every non-null property id returned carries a confidence of       *)
(* exactly 1.0 (stages 0 and 1), exactly 0.7 (stage 3) or at least         *)
(* MIN_CONFIDENCE (stages 2 and 3b); a match below MIN_CONFIDENCE can only *)
(* be the stage-3 exact building match.                                    *)
(***************************************************************************)
C19_ConfidenceByStage ==
  \A r \in Callers :
    (Done(r) /\ result[r].property_id # None) =>
      /\ \/ stage[r] \in {"prematch", "exact"} /\ result[r].confidence = 2000
         \/ stage[r] = "bldg_exact" /\ result[r].confidence = 1400
         \/ stage[r] \in {"fuzzy", "bldg_fuzzy"} /\ result[r].confidence >= 1600
      /\ result[r].confidence < 1600 => stage[r] = "bldg_exact"

\* a building-level match below the threshold, after a fuzzy score of 0.5
C19_Witness ==
  \E r \in Callers :
    /\ Done(r)
    /\ stage[r] = "bldg_exact"
    /\ result[r].property_id # None
    /\ result[r].confidence < MIN_CONFIDENCE
    /\ Stage2Conf(r) = 1000

(***************************************************************************)
(* C20.  With a deterministic embedding provider, a normalised address     *)
(* without a hyphen is its own building address, so stage 3b searches the  *)
(* same index with the same vector as stage 2: conf2 is 0.9 times the      *)
(* stage-2 confidence, which is below MIN_CONFIDENCE, and a call that      *)
(* reaches stage 3b with such an address ends in the abstention.           *)
(***************************************************************************)
HasHyphen(s) == \E i \in 1..Len(s) : s[i] = "-"

C20_NoHyphenNoBuildingFuzzyMatch ==
  \A r \in Callers :
    ~HasHyphen(norm_addr[r]) =>
      /\ pc[r] = "bldg_fuzzy" =>
           /\ BuildingAddr(norm_addr[r]) = norm_addr[r]
           /\ Stage2Conf(r) < 1600
           /\ Stage3bConf(r) = (9 * Stage2Conf(r)) \div 10
           /\ Stage3bConf(r) < 1600
      /\ (Done(r) /\ stage[r] \in {"bldg_fuzzy", "abstain"}) =>
           /\ stage[r] = "abstain"
           /\ Abstained(r)

\* a non-empty address without a hyphen that went through stage 3b
C20_Witness ==
  \E r \in Callers :
    /\ Done(r)
    /\ stage[r] = "abstain"
    /\ norm_addr[r] = <<"b", "b">>
    /\ Stage3bConf(r) > 0

=============================================================================
